---------------------------- MODULE Spec2Model ----------------------------
(***************************************************************************)
(* BoostMe KPI dashboard (src/Romain_fichier/boostme_streamlit/app.py).    *)
(*                                                                         *)
(* The Streamlit script is one pass over an uploaded file:                 *)
(*   load_data (normalize_columns, timestamp parsing, derived columns,     *)
(*   numeric coercion) -> facet options and selections -> filter block     *)
(*   -> four KPI cards.                                                    *)
(*                                                                         *)
(* A table is [columns |-> sequence of names, rows |-> sequence of rows],  *)
(* a row being a sequence of cells aligned with columns (pandas allows     *)
(* duplicate labels, so cells are addressed by position).  A cell is       *)
(* [k, n, s]: k = "null" (NaN/NaT/None), "int" (n), "str" (s) or "ts"      *)
(* (n = hours since 1970-01-01T00:00 UTC, a parsed naive timestamp).       *)
(* Display strings are sequences of one-character strings; EMDASH stands   *)
(* for the single character U+2014.                                        *)
(***************************************************************************)
EXTENDS Integers, Sequences, FiniteSets, TLC

VARIABLES
    pc,         \* position of the script / of the pure-function harness
    uploaded,   \* the file_uploader's value: None or [name, table]
    df,         \* the table held by the script (load_data's result)
    err,        \* the exception that halted the pass, "none" otherwise
    year_sel, cat_sel, ch_sel, day_sel, hour_sel,   \* multiselect values
    fdf,        \* the filtered table
    kpi         \* the four card values, as displayed

vars == <<pc, uploaded, df, err, year_sel, cat_sel, ch_sel, day_sel, hour_sel, fdf, kpi>>

---------------------------------------------------------------------------
(* Bounds of the model *)

\* at most this many rows in an uploaded table (the three-row scenario of the
\* specification is uploaded besides)
MaxRows == 2

\* at most this many columns in a table of the normalizer harness
MaxCols == 3

---------------------------------------------------------------------------
(* Cells *)

Null == [k |-> "null", n |-> 0, s |-> ""]
IntCell(i) == [k |-> "int", n |-> i, s |-> ""]
StrCell(x) == [k |-> "str", n |-> 0, s |-> x]
TsCell(h) == [k |-> "ts", n |-> h, s |-> ""]

notna(c) == c.k # "null"

EmptyTable == [columns |-> <<>>, rows |-> <<>>]

\* the exceptions that end a pass
UnsupportedFormat == "ValueError: Format non supporté (CSV/Parquet uniquement)."
DatetimeOfFrame == "ValueError: to_datetime of a DataFrame"
NumericOfFrame == "TypeError: to_numeric of a DataFrame"
UniqueOfFrame == "AttributeError: DataFrame has no unique"
MissingColumn == "KeyError"
AmbiguousTruth == "ValueError: truth value of a Series is ambiguous"

None == [name |-> <<>>, table |-> EmptyTable, present |-> FALSE]

Max(S) == CHOOSE x \in S : \A y \in S : y <= x

---------------------------------------------------------------------------
(* str.lower(), on the characters and on the column names the model uses *)

LowerChar(c) ==
    CASE c = "A" -> "a" [] c = "C" -> "c" [] c = "E" -> "e" [] c = "P" -> "p"
      [] c = "Q" -> "q" [] c = "R" -> "r" [] c = "S" -> "s" [] c = "T" -> "t"
      [] c = "U" -> "u" [] c = "V" -> "v" [] c = "X" -> "x"
      [] OTHER -> c

LowerChars(w) == [i \in DOMAIN w |-> LowerChar(w[i])]

Lower(c) ==
    CASE c = "publishedAt" -> "publishedat"
      [] c = "PUBLISHED_AT" -> "published_at"
      [] c = "categoryId" -> "categoryid"
      [] c = "Vues" -> "vues"
      [] c = "Views" -> "views"
      [] c = "Chaine" -> "chaine"
      [] c = "Heure" -> "heure"
      [] c = "HEURE" -> "heure"
      [] c = "Jour de la semaine" -> "jour de la semaine"
      [] c = "JOUR DE LA SEMAINE" -> "jour de la semaine"
      [] c = "Taux d'engagement (%)" -> "taux d'engagement (%)"
      [] c = "Engagement total" -> "engagement total"
      [] c = "Année" -> "année"
      [] OTHER -> c

---------------------------------------------------------------------------
(* normalize_columns *)

rename_map == <<
    <<"taux_engagement", "Taux d'engagement (%)">>,
    <<"taux d'engagement (%)", "Taux d'engagement (%)">>,
    <<"engagement_total", "Engagement total">>,
    <<"engagement total", "Engagement total">>,
    <<"publishedAt", "published_at">>,
    <<"published_at", "published_at">>,
    <<"date_publication", "published_at">>,
    <<"categorie_id", "category_id">>,
    <<"categoryId", "category_id">>,
    <<"vues", "views">>,
    <<"views", "views">>,
    <<"chaine", "channel">>,
    <<"channel", "channel">>,
    <<"jour de la semaine", "Jour de la semaine">>,
    <<"Jour de la semaine", "Jour de la semaine">>,
    <<"heure", "Heure">>,
    <<"Heure", "Heure">>,
    <<"category_name", "cats.name">>,
    <<"categorie", "cats.name">>,
    <<"cats.name", "cats.name">> >>

\* {c.lower(): c for c in df.columns}: a later column replaces an earlier one
lower_to_actual(columns) ==
    [l \in {Lower(columns[i]) : i \in DOMAIN columns} |->
        columns[Max({i \in DOMAIN columns : Lower(columns[i]) = l})]]

\* the loop over rename_map.items(): a later entry for the same column replaces
\* an earlier one
final_rename(columns) ==
    LET lta == lower_to_actual(columns)
        hits == {j \in DOMAIN rename_map : rename_map[j][1] \in DOMAIN lta}
    IN  [a \in {lta[rename_map[j][1]] : j \in hits} |->
            rename_map[Max({j \in hits : lta[rename_map[j][1]] = a})][2]]

\* DataFrame.rename(columns=mapping): every label found in mapping is replaced,
\* position and data kept
rename(t, mapping) ==
    [t EXCEPT !.columns =
        [i \in DOMAIN t.columns |->
            IF t.columns[i] \in DOMAIN mapping THEN mapping[t.columns[i]]
            ELSE t.columns[i]]]

normalize_columns(t) == rename(t, final_rename(t.columns))

---------------------------------------------------------------------------
(* Column access *)

Positions(t, name) == {i \in DOMAIN t.columns : t.columns[i] = name}

\* `name in t.columns`
HasColumn(t, name) == Positions(t, name) # {}

\* t[name] is a Series only when exactly one column carries the label; with a
\* repeated label it is a DataFrame
IsSeries(t, name) == Cardinality(Positions(t, name)) = 1

Pos(t, name) == CHOOSE i \in Positions(t, name) : TRUE

\* the cells of the Series t[name], top to bottom
Series(t, name) == [r \in DOMAIN t.rows |-> t.rows[r][Pos(t, name)]]

\* t[name] = values: in place when the label exists, a new last column otherwise
Assign(t, name, values) ==
    IF HasColumn(t, name)
    THEN [t EXCEPT !.rows =
            [r \in DOMAIN t.rows |-> [t.rows[r] EXCEPT ![Pos(t, name)] = values[r]]]]
    ELSE [columns |-> Append(t.columns, name),
          rows |-> [r \in DOMAIN t.rows |-> Append(t.rows[r], values[r])]]

---------------------------------------------------------------------------
(* Timestamps: pd.to_datetime(..., errors="coerce", utc=True).dt.tz_convert(None) *)

IsLeap(y) == (y % 4 = 0 /\ y % 100 # 0) \/ y % 400 = 0

LeapsThrough(y) == (y \div 4) - (y \div 100) + (y \div 400)

\* days from 1970-01-01 to the first of January of year y
DaysBeforeYear(y) == 365 * (y - 1970) + LeapsThrough(y - 1) - LeapsThrough(1969)

DaysBeforeMonth(y, m) ==
    <<0, 31, 59, 90, 120, 151, 181, 212, 243, 273, 304, 334>>[m]
        + (IF m > 2 /\ IsLeap(y) THEN 1 ELSE 0)

\* hours since the epoch of a wall-clock time y-m-d h:00 written with a UTC
\* offset of off hours: the instant, expressed in UTC
UtcHours(y, m, d, h, off) ==
    (DaysBeforeYear(y) + DaysBeforeMonth(y, m) + (d - 1)) * 24 + h - off

\* the timestamp texts of the model and what they parse to; any other text is
\* unparseable and coerced to NaT
to_datetime(c) ==
    CASE c.k = "ts" -> c
      [] c.k = "str" /\ c.s = "2024-01-01T10:00:00Z" -> TsCell(UtcHours(2024, 1, 1, 10, 0))
      [] c.k = "str" /\ c.s = "2024-06-01T10:00:00Z" -> TsCell(UtcHours(2024, 6, 1, 10, 0))
      [] c.k = "str" /\ c.s = "2023-01-01T10:00:00Z" -> TsCell(UtcHours(2023, 1, 1, 10, 0))
      [] c.k = "str" /\ c.s = "2024-01-01T00:00:00+02:00" -> TsCell(UtcHours(2024, 1, 1, 0, 2))
      [] OTHER -> Null

\* Series.dt.year
dt_year(c) ==
    IF c.k # "ts" THEN Null
    ELSE LET d == c.n \div 24
         IN  IntCell(CHOOSE y \in 1970..2100 :
                        DaysBeforeYear(y) <= d /\ d < DaysBeforeYear(y + 1))

\* Series.dt.weekday: Monday = 0 (1970-01-01 was a Thursday)
dt_weekday(c) == IF c.k # "ts" THEN Null ELSE IntCell(((c.n \div 24) + 3) % 7)

\* mutant: the hour of a missing timestamp filled with 0
dt_hour_filled(c) == IF c.k # "ts" THEN IntCell(0) ELSE IntCell(c.n % 24)

\* Series.dt.hour
dt_hour(c) == IF c.k # "ts" THEN Null ELSE IntCell(c.n % 24)

fr_weekdays == <<"Lundi", "Mardi", "Mercredi", "Jeudi", "Vendredi", "Samedi", "Dimanche">>

\* Series.map(fr_weekdays): key 0 is Lundi; NaN maps to NaN
map_fr_weekdays(c) == IF c.k # "int" THEN Null ELSE StrCell(fr_weekdays[c.n + 1])

\* pd.to_numeric(errors="coerce") on the cells of the model
to_numeric(c) ==
    CASE c.k = "int" -> c
      [] c.k = "str" /\ c.s = "12" -> IntCell(12)
      [] OTHER -> Null

---------------------------------------------------------------------------
(* load_data *)

\* str.endswith
endswith(w, suffix) ==
    /\ Len(w) >= Len(suffix)
    /\ SubSeq(w, Len(w) - Len(suffix) + 1, Len(w)) = suffix

\* Series.map(f), for the three conversions of lines 186-200
to_datetime_all(values) == [r \in DOMAIN values |-> to_datetime(values[r])]

dt_year_all(values) == [r \in DOMAIN values |-> dt_year(values[r])]

dt_weekday_name_all(values) ==
    [r \in DOMAIN values |-> map_fr_weekdays(dt_weekday(values[r]))]

dt_hour_all(values) == [r \in DOMAIN values |-> dt_hour(values[r])]

to_numeric_all(values) == [r \in DOMAIN values |-> to_numeric(values[r])]

\* lines 184-186: pd.to_datetime of a repeated label (a DataFrame) raises
parse_published_at(t) ==
    IF ~HasColumn(t, "published_at") THEN [err |-> "none", table |-> t]
    ELSE IF ~IsSeries(t, "published_at") THEN [err |-> DatetimeOfFrame, table |-> EmptyTable]
    ELSE [err |-> "none",
          table |-> Assign(t, "published_at", to_datetime_all(Series(t, "published_at")))]

\* mutant: the derived column assigned whether or not the label exists
derive_column_overwrite(t, name, values) == Assign(t, name, values)

\* one `if name not in df.columns: df[name] = values` of lines 190-200
derive_column(t, name, values) ==
    IF HasColumn(t, name) THEN t ELSE Assign(t, name, values)

\* lines 188-200
derive_columns(t) ==
    IF ~HasColumn(t, "published_at") THEN t
    ELSE LET published == Series(t, "published_at")
         IN  derive_column(
                derive_column(
                    derive_column(t, "Année", dt_year_all(published)),
                    "Jour de la semaine", dt_weekday_name_all(published)),
                "Heure", dt_hour_all(published))

\* one turn of the loop of lines 203-205; r is the result so far
coerce_column(r, col) ==
    IF r.err # "none" \/ ~HasColumn(r.table, col) THEN r
    ELSE IF ~IsSeries(r.table, col) THEN [err |-> NumericOfFrame, table |-> EmptyTable]
    ELSE [err |-> "none",
          table |-> Assign(r.table, col, to_numeric_all(Series(r.table, col)))]

coerce_numeric(t) ==
    coerce_column(
        coerce_column(
            coerce_column([err |-> "none", table |-> t], "views"),
            "Taux d'engagement (%)"),
        "Engagement total")

\* mutant: the extensions tested without their dot
supported_without_dot(name) ==
    \/ endswith(LowerChars(name), <<"c", "s", "v">>)
    \/ endswith(LowerChars(name), <<"p", "a", "r", "q", "u", "e", "t">>)

\* the extension test of lines 174-180
supported(name) ==
    \/ endswith(LowerChars(name), <<".", "c", "s", "v">>)
    \/ endswith(LowerChars(name), <<".", "p", "a", "r", "q", "u", "e", "t">>)

\* load_data: [err, table]; read_csv/read_parquet yield the file's table
load_data(uploaded_file) ==
    IF ~uploaded_file.present THEN [err |-> "none", table |-> EmptyTable]
    ELSE IF ~supported(uploaded_file.name)
    THEN [err |-> UnsupportedFormat, table |-> EmptyTable]
    ELSE LET parsed == parse_published_at(normalize_columns(uploaded_file.table))
         IN  IF parsed.err # "none" THEN parsed
             ELSE coerce_numeric(derive_columns(parsed.table))

\* DataFrame.empty: some axis has length 0
empty(t) == Len(t.columns) = 0 \/ Len(t.rows) = 0

---------------------------------------------------------------------------
(* Slicers, lines 273-297 *)

weekdays == <<"Lundi", "Mardi", "Mercredi", "Jeudi", "Vendredi", "Samedi", "Dimanche">>

facet_columns == <<"Année", "cats.name", "channel", "Jour de la semaine", "Heure">>

\* df.get(name, empty Series).dropna().unique(), as a set
unique_values(t, name) ==
    IF ~HasColumn(t, name) THEN {}
    ELSE {c \in {Series(t, name)[r] : r \in DOMAIN t.rows} : notna(c)}

\* the values offered by the widget of facet i
options(t, i) ==
    IF i = 4
    THEN {StrCell(weekdays[d]) : d \in DOMAIN weekdays} \cap unique_values(t, facet_columns[i])
    ELSE unique_values(t, facet_columns[i])

\* .unique() does not exist on the DataFrame a repeated label yields
slicers_raise(t) ==
    \E i \in DOMAIN facet_columns :
        HasColumn(t, facet_columns[i]) /\ ~IsSeries(t, facet_columns[i])

---------------------------------------------------------------------------
(* Filter block, lines 299-310 *)

\* t[t[name].isin(sel)]
isin_rows(t, name, sel) ==
    LET p == Pos(t, name)
        keep(row) == row[p] \in sel
    IN  [t EXCEPT !.rows = SelectSeq(t.rows, keep)]

\* mutant: an empty selection selects nothing instead of everything
apply_facet_empty_selects_none(t, name, sel) ==
    IF HasColumn(t, name) THEN isin_rows(t, name, sel) ELSE t

\* one `if sel and name in fdf.columns: fdf = fdf[fdf[name].isin(sel)]`
apply_facet(t, name, sel) ==
    IF sel # {} /\ HasColumn(t, name) THEN isin_rows(t, name, sel) ELSE t

\* mutant: the ifs chained as if / elif, so that only the first active facet
\* filters
filter_block_first_only(t, sels) ==
    LET active == {i \in DOMAIN facet_columns : sels[i] # {} /\ HasColumn(t, facet_columns[i])}
    IN  IF active = {} THEN t
        ELSE LET i == CHOOSE i \in active : \A j \in active : i <= j
             IN  isin_rows(t, facet_columns[i], sels[i])

\* the five ifs in the order of the source; sels[i] is the selection of facet i
filter_block(t, sels) ==
    apply_facet(
        apply_facet(
            apply_facet(
                apply_facet(
                    apply_facet(t, "Année", sels[1]),
                    "cats.name", sels[2]),
                "channel", sels[3]),
            "Jour de la semaine", sels[4]),
        "Heure", sels[5])

---------------------------------------------------------------------------
(* Numbers of the KPI block: NaN, or the exact quotient num / den *)

NaN == [nan |-> TRUE, num |-> 0, den |-> 1]

Num(a, b) == [nan |-> FALSE, num |-> a, den |-> b]

RECURSIVE SumCells(_)
SumCells(cells) ==
    IF cells = <<>> THEN 0
    ELSE (IF Head(cells).k = "int" THEN Head(cells).n ELSE 0) + SumCells(Tail(cells))

CountCells(cells) == Cardinality({r \in DOMAIN cells : notna(cells[r])})

\* Series.notna().sum()
notna_sum(cells) == Num(CountCells(cells), 1)

\* Series.sum(): NaN skipped, the empty sum is 0
sum(cells) == Num(SumCells(cells), 1)

\* mutant: the mean of nothing "fixed" to 0
mean_zero_when_empty(cells) ==
    IF CountCells(cells) = 0 THEN Num(0, 1) ELSE Num(SumCells(cells), CountCells(cells))

\* Series.mean(): NaN skipped, NaN when nothing is left
mean(cells) ==
    IF CountCells(cells) = 0 THEN NaN ELSE Num(SumCells(cells), CountCells(cells))

---------------------------------------------------------------------------
(* _fr_int, _fr_float *)

EMDASH == "EMDASH"

\* round(): to the nearest integer, a tie to the even one
round(a, b) ==
    LET q == a \div b
        r == a % b
    IN  IF 2 * r < b THEN q
        ELSE IF 2 * r > b THEN q + 1
        ELSE IF q % 2 = 0 THEN q ELSE q + 1

Digit(d) == <<"0", "1", "2", "3", "4", "5", "6", "7", "8", "9">>[d + 1]

RECURSIVE Digits(_)
Digits(n) == IF n < 10 THEN <<Digit(n)>> ELSE Append(Digits(n \div 10), Digit(n % 10))

\* the "," option of the format mini-language: a comma before every group of
\* three digits counted from the right
RECURSIVE Grouped(_)
Grouped(ds) ==
    IF Len(ds) <= 3 THEN ds
    ELSE Grouped(SubSeq(ds, 1, Len(ds) - 3)) \o <<",">> \o SubSeq(ds, Len(ds) - 2, Len(ds))

Sign(n) == IF n < 0 THEN <<"-">> ELSE <<>>

Abs(n) == IF n < 0 THEN -n ELSE n

\* f"{n:,}"
format_int(n) == Sign(n) \o Grouped(Digits(Abs(n)))

RECURSIVE Pow10(_)
Pow10(d) == IF d = 0 THEN 1 ELSE 10 * Pow10(d - 1)

\* the fractional digits, left-padded with zeros to the width
RECURSIVE Padded(_, _)
Padded(n, width) ==
    IF width = 0 THEN <<>> ELSE Append(Padded(n \div 10, width - 1), Digit(n % 10))

\* f"{x:,.{decimals}f}" for x = a / b.  The quotients of the model are never
\* half-way between two neighbours at the printed precision, where the binary
\* value of the float would decide.
format_float(a, b, decimals) ==
    LET scaled == round(a * Pow10(decimals), b)
    IN  Sign(scaled) \o Grouped(Digits(Abs(scaled) \div Pow10(decimals)))
            \o (IF decimals = 0 THEN <<>>
                ELSE <<".">> \o Padded(Abs(scaled) % Pow10(decimals), decimals))

\* str.replace(old, new) for one-character old and new
replace(w, old, new) == [i \in DOMAIN w |-> IF w[i] = old THEN new ELSE w[i]]

_fr_int(x) ==
    IF x.nan THEN <<EMDASH>>
    ELSE replace(format_int(round(x.num, x.den)), ",", " ")

_fr_float(x, decimals) ==
    IF x.nan THEN <<EMDASH>>
    ELSE replace(replace(replace(format_float(x.num, x.den, decimals), ",", "X"), ".", ","), "X", " ")

---------------------------------------------------------------------------
(* KPI cards, lines 315-335 *)

\* fdf[name] raises KeyError for a missing label; with a repeated label the
\* aggregate is a Series and `if pd.isna(n)` raises ValueError
column_error(t, name) ==
    IF ~HasColumn(t, name) THEN MissingColumn
    ELSE IF ~IsSeries(t, name) THEN AmbiguousTruth
    ELSE "none"

k1_value(t) == _fr_int(notna_sum(Series(t, "category_id")))

\* mutant: the views summed, then divided by the number of analyzed videos
k2_by_video_count(t) ==
    IF CountCells(Series(t, "category_id")) = 0 THEN _fr_int(NaN)
    ELSE _fr_int(Num(SumCells(Series(t, "views")), CountCells(Series(t, "category_id"))))

k2_value(t) == _fr_int(mean(Series(t, "views")))

k3_value(t) == _fr_float(mean(Series(t, "Taux d'engagement (%)")), 2) \o <<" ", "%">>

k4_value(t) == _fr_int(sum(Series(t, "Engagement total")))

kpi_columns == <<"category_id", "views", "Taux d'engagement (%)", "Engagement total">>

\* the cards in the order they are rendered
card(t, i) ==
    CASE i = 1 -> k1_value(t) [] i = 2 -> k2_value(t)
      [] i = 3 -> k3_value(t) [] OTHER -> k4_value(t)

\* the first card whose column raises, 5 when none does
first_failing(t) ==
    LET bad == {i \in DOMAIN kpi_columns : column_error(t, kpi_columns[i]) # "none"}
    IN  IF bad = {} THEN Len(kpi_columns) + 1
        ELSE CHOOSE i \in bad : \A j \in bad : i <= j

\* the cards rendered before the pass ends
kpi_cards(t) == [i \in 1..(first_failing(t) - 1) |-> card(t, i)]

kpi_error(t) ==
    IF first_failing(t) > Len(kpi_columns) THEN "none"
    ELSE column_error(t, kpi_columns[first_failing(t)])

---------------------------------------------------------------------------
(* Uploaded files of the model *)

\* rows a file may hold, by logical field; the first three are the scenario of
\* the specification's section 8
RowPool == <<
    [cat |-> StrCell("a"), views |-> IntCell(100), rate |-> IntCell(2), total |-> IntCell(5),
     channel |-> StrCell("X"), pub |-> StrCell("2024-01-01T10:00:00Z"),
     year |-> IntCell(2020), day |-> StrCell("Mardi"), hour |-> IntCell(7),
     catname |-> StrCell("Music")],
    [cat |-> Null, views |-> IntCell(200), rate |-> IntCell(4), total |-> IntCell(15),
     channel |-> StrCell("Y"), pub |-> StrCell("2024-06-01T10:00:00Z"),
     year |-> IntCell(2021), day |-> StrCell("Monday"), hour |-> IntCell(8),
     catname |-> StrCell("News")],
    [cat |-> StrCell("c"), views |-> Null, rate |-> Null, total |-> IntCell(0),
     channel |-> StrCell("X"), pub |-> StrCell("2023-01-01T10:00:00Z"),
     year |-> Null, day |-> Null, hour |-> Null,
     catname |-> StrCell("Music")],
    [cat |-> StrCell("d"), views |-> StrCell("n/a"), rate |-> StrCell("12"), total |-> Null,
     channel |-> Null, pub |-> StrCell("n/a"),
     year |-> IntCell(2020), day |-> StrCell("Mardi"), hour |-> IntCell(7),
     catname |-> Null],
    [cat |-> Null, views |-> IntCell(1235), rate |-> Null, total |-> StrCell("n/a"),
     channel |-> StrCell("Y"), pub |-> StrCell("2024-01-01T00:00:00+02:00"),
     year |-> IntCell(2021), day |-> StrCell("Lundi"), hour |-> IntCell(8),
     catname |-> Null] >>

Required == <<
    <<"category_id", "cat">>, <<"views", "views">>, <<"Taux d'engagement (%)", "rate">>,
    <<"Engagement total", "total">>, <<"channel", "channel">> >>

\* column layouts of the uploaded files: <<column name, logical field>>
Layouts == <<
    \* the canonical six
    Required \o << <<"published_at", "pub">> >>,
    \* accepted variants, and a category name
    << <<"categorie_id", "cat">>, <<"Vues", "views">>, <<"taux_engagement", "rate">>,
       <<"engagement_total", "total">>, <<"Chaine", "channel">>,
       <<"date_publication", "pub">>, <<"category_name", "catname">> >>,
    \* no timestamp
    Required,
    \* timestamp and supplied year, weekday and hour
    Required \o << <<"published_at", "pub">>, <<"Année", "year">>,
                   <<"JOUR DE LA SEMAINE", "day">>, <<"HEURE", "hour">> >>,
    \* supplied year and hour, no timestamp
    Required \o << <<"Année", "year">>, <<"heure", "hour">> >>,
    \* the mixed-case spellings of rename_map
    << <<"categoryId", "cat">>, <<"views", "views">>, <<"Taux d'engagement (%)", "rate">>,
       <<"Engagement total", "total">>, <<"channel", "channel">>,
       <<"publishedAt", "pub">> >>,
    \* two variants of one canonical name
    Required \o << <<"published_at", "pub">>, <<"vues", "views">> >>,
    Required \o << <<"published_at", "pub">>, <<"chaine", "channel">> >>,
    Required \o << <<"published_at", "pub">>, <<"categorie_id", "cat">> >>,
    Required \o << <<"published_at", "pub">>, <<"date_publication", "pub">> >>,
    \* two columns that differ only in case
    Required \o << <<"published_at", "pub">>, <<"Heure", "hour">>, <<"HEURE", "hour">> >>,
    \* a required column missing
    << <<"category_id", "cat">>, <<"Engagement total", "total">>, <<"channel", "channel">> >> >>

Field(row, f) ==
    CASE f = "cat" -> row.cat [] f = "views" -> row.views [] f = "rate" -> row.rate
      [] f = "total" -> row.total [] f = "channel" -> row.channel [] f = "pub" -> row.pub
      [] f = "year" -> row.year [] f = "day" -> row.day [] f = "hour" -> row.hour
      [] OTHER -> row.catname

\* the table read from a file of layout l holding the pool rows picks[1], picks[2], ...
FileTable(l, picks) ==
    [columns |-> [i \in DOMAIN Layouts[l] |-> Layouts[l][i][1]],
     rows |-> [r \in DOMAIN picks |->
                [i \in DOMAIN Layouts[l] |-> Field(RowPool[picks[r]], Layouts[l][i][2])]]]

\* the rows of a file: up to MaxRows records of the pool, in the pool's order
RowPicks ==
    {p \in UNION {[1..n -> DOMAIN RowPool] : n \in 0..MaxRows} :
        \A i, j \in DOMAIN p : i < j => p[i] < p[j]}

\* the end-to-end scenario: the first three pool rows, in order
ScenarioPicks == <<1, 2, 3>>

Tables == {FileTable(l, picks) : l \in DOMAIN Layouts, picks \in RowPicks \cup {ScenarioPicks}}

CsvName == <<"a", ".", "c", "s", "v">>

FileNames == {
    CsvName,
    <<"A", ".", "C", "S", "V">>,
    <<"a", ".", "P", "a", "r", "q", "u", "e", "t">>,
    <<"a", ".", "t", "x", "t">>,
    <<"a", "c", "s", "v">>,
    <<"a", ".", "c", "s", "v", ".", "x">> }

File(name, table) == [name |-> name, table |-> table, present |-> TRUE]

---------------------------------------------------------------------------
(* The script *)

NoSelection == {}

Init ==
    /\ pc = "start"
    /\ uploaded = None
    /\ df = EmptyTable
    /\ err = "none"
    /\ year_sel = NoSelection /\ cat_sel = NoSelection /\ ch_sel = NoSelection
    /\ day_sel = NoSelection /\ hour_sel = NoSelection
    /\ fdf = EmptyTable
    /\ kpi = <<>>

Fresh ==
    /\ df' = EmptyTable
    /\ err' = "none"
    /\ year_sel' = NoSelection /\ cat_sel' = NoSelection /\ ch_sel' = NoSelection
    /\ day_sel' = NoSelection /\ hour_sel' = NoSelection
    /\ fdf' = EmptyTable
    /\ kpi' = <<>>

\* the user puts a file in the uploader and the script runs anew.  Every run
\* rebuilds the script's state from the uploader's value alone, so a later
\* upload starts the same pass as the first one of the session.
Upload ==
    /\ pc = "awaiting"
    /\ ~uploaded.present
    /\ \E name \in FileNames, table \in Tables :
        \* the name decides only the dispatch of load_data: the larger tables
        \* come under one name
        /\ name = CsvName \/ Len(table.rows) <= 1
        /\ uploaded' = File(name, table)
    /\ pc' = "start"
    /\ Fresh

\* line 228: df = load_data(uploaded)
Load ==
    /\ pc = "start"
    /\ LET r == load_data(uploaded)
       IN  /\ df' = r.table
           /\ err' = r.err
           /\ pc' = IF r.err = "none" THEN "loaded" ELSE "error"
    /\ UNCHANGED <<uploaded, year_sel, cat_sel, ch_sel, day_sel, hour_sel, fdf, kpi>>

\* lines 250-257: nothing to show, st.stop()
AwaitInput ==
    /\ pc = "loaded"
    /\ empty(df)
    /\ pc' = "awaiting"
    /\ UNCHANGED <<uploaded, df, err, year_sel, cat_sel, ch_sel, day_sel, hour_sel, fdf, kpi>>

\* lines 273-297: the five multiselects, each returning some of its options
Slicers ==
    /\ pc = "loaded"
    /\ ~empty(df)
    /\ IF slicers_raise(df)
       THEN /\ pc' = "error"
            /\ err' = UniqueOfFrame
            /\ UNCHANGED <<year_sel, cat_sel, ch_sel, day_sel, hour_sel>>
       ELSE /\ pc' = "selected"
            /\ err' = "none"
            /\ year_sel' \in SUBSET options(df, 1)
            /\ cat_sel' \in SUBSET options(df, 2)
            /\ ch_sel' \in SUBSET options(df, 3)
            /\ day_sel' \in SUBSET options(df, 4)
            /\ hour_sel' \in SUBSET options(df, 5)
    /\ UNCHANGED <<uploaded, df, fdf, kpi>>

\* lines 299-310
Filter ==
    /\ pc = "selected"
    /\ fdf' = filter_block(df, <<year_sel, cat_sel, ch_sel, day_sel, hour_sel>>)
    /\ pc' = "filtered"
    /\ UNCHANGED <<uploaded, df, err, year_sel, cat_sel, ch_sel, day_sel, hour_sel, kpi>>

\* lines 315-335
Kpis ==
    /\ pc = "filtered"
    /\ kpi' = kpi_cards(fdf)
    /\ err' = kpi_error(fdf)
    /\ pc' = IF kpi_error(fdf) = "none" THEN "done" ELSE "error"
    /\ UNCHANGED <<uploaded, df, year_sel, cat_sel, ch_sel, day_sel, hour_sel, fdf>>

Next == Upload \/ Load \/ AwaitInput \/ Slicers \/ Filter \/ Kpis

Spec == Init /\ [][Next]_vars

---------------------------------------------------------------------------
(* normalize_columns on its own: applied to a table, then to its result *)

NormNames == {
    "publishedAt", "published_at", "date_publication", "categoryId", "category_id",
    "Vues", "vues", "views", "chaine", "channel", "Heure", "HEURE",
    "Jour de la semaine", "titre" }

\* column labels of a file are distinct; the one row names each column's origin
NormTables ==
    {[columns |-> c, rows |-> << [i \in DOMAIN c |-> StrCell(c[i])] >>] :
        c \in {c \in UNION {[1..n -> NormNames] : n \in 1..MaxCols} :
                \A i, j \in DOMAIN c : c[i] = c[j] => i = j}}

InitNormalize ==
    /\ pc = "raw"
    /\ \E t \in NormTables : uploaded = File(CsvName, t) /\ df = t
    /\ err = "none"
    /\ year_sel = NoSelection /\ cat_sel = NoSelection /\ ch_sel = NoSelection
    /\ day_sel = NoSelection /\ hour_sel = NoSelection
    /\ fdf = EmptyTable
    /\ kpi = <<>>

Normalize ==
    /\ pc \in {"raw", "once"}
    /\ df' = normalize_columns(df)
    /\ pc' = IF pc = "raw" THEN "once" ELSE "twice"
    /\ UNCHANGED <<uploaded, err, year_sel, cat_sel, ch_sel, day_sel, hour_sel, fdf, kpi>>

NextNormalize == Normalize

SpecNormalize == InitNormalize /\ [][NextNormalize]_vars

---------------------------------------------------------------------------
(* Claims about normalize_columns, checked under SpecNormalize *)

\* the canonical targets of the entries whose key equals name when case is ignored
Targets(name) ==
    {rename_map[j][2] : j \in {j \in DOMAIN rename_map : Lower(rename_map[j][1]) = Lower(name)}}

\* C4: every input column whose name equals a key of the lookup table when
\* case is ignored carries that entry's canonical target after
\* normalize_columns; a column matching no entry keeps its name.
C4_MatchingColumnsRenamed ==
    pc = "once" =>
        \A i \in DOMAIN uploaded.table.columns :
            LET name == uploaded.table.columns[i]
            IN  IF Targets(name) = {} THEN df.columns[i] = name
                ELSE df.columns[i] \in Targets(name)

Canonical(columns) ==
    \A i \in DOMAIN columns :
        columns[i] \in {rename_map[j][2] : j \in DOMAIN rename_map} \cup {"category_id"}

\* C5: normalizing a normalized table changes no column name, and normalizing
\* a table whose names are already canonical changes nothing.
C5_NormalizeIdempotent ==
    [][/\ pc = "once" => df'.columns = df.columns
       /\ (pc = "raw" /\ Canonical(df.columns)) => df' = df]_vars

\* C10: when two input columns are different variants of one canonical target,
\* the normalized table holds exactly one column of that name.
C10_OneColumnPerTarget ==
    pc = "once" =>
        \A i, j \in DOMAIN uploaded.table.columns :
            \A v \in Targets(uploaded.table.columns[i]) \cap Targets(uploaded.table.columns[j]) :
                i # j => Cardinality(Positions(df, v)) = 1

---------------------------------------------------------------------------
(* Claims about the script, checked under Spec *)

sels == <<year_sel, cat_sel, ch_sel, day_sel, hour_sel>>

\* the facets that restrict: a selection is made and the column exists
Active(t, ss) == {i \in DOMAIN facet_columns : ss[i] # {} /\ HasColumn(t, facet_columns[i])}

\* the row has, for every restricting facet, a selected value
Selected(row, t, ss) ==
    \A i \in Active(t, ss) : row[Pos(t, facet_columns[i])] \in ss[i]

SelectedRows(t, ss) ==
    LET keep(row) == Selected(row, t, ss)
    IN  SelectSeq(t.rows, keep)

\* C1: the filtered table holds exactly the rows of the loaded table, in their
\* order, that have a selected value for every facet whose selection is
\* non-empty and whose column exists; with every selection empty it is the
\* loaded table.
C1_FilterKeepsSelectedRows ==
    pc = "filtered" =>
        /\ fdf.columns = df.columns
        /\ fdf.rows = SelectedRows(df, sels)
        /\ (\A i \in DOMAIN sels : sels[i] = {}) => fdf = df

\* a facet restricts and drops rows while the column of another is missing
C1_Witness ==
    /\ pc = "filtered"
    /\ ch_sel # {}
    /\ ~HasColumn(df, "cats.name")
    /\ Len(fdf.rows) > 0
    /\ Len(fdf.rows) < Len(df.rows)

\* the orders in which the five ifs can be written
Orders == Permutations(DOMAIN facet_columns)

\* the ifs of the filter block taken in the given order
RECURSIVE filter_prefix(_, _, _, _)
filter_prefix(t, ss, order, k) ==
    IF k = 0 THEN t
    ELSE apply_facet(filter_prefix(t, ss, order, k - 1),
                     facet_columns[order[k]], ss[order[k]])

filter_in_order(t, ss, order) == filter_prefix(t, ss, order, Len(order))

\* C7: the filter block's result is the result of the five facet filters taken
\* in any order; for any two facets, A then B equals B then A and equals the
\* rows meeting both constraints at once.
C7_OrderNotObservable ==
    pc = "filtered" =>
        /\ \A o \in Orders : filter_in_order(df, sels, o) = fdf
        /\ \A a, b \in DOMAIN facet_columns : a < b =>
            LET only == [i \in DOMAIN sels |-> IF i \in {a, b} THEN sels[i] ELSE {}]
            IN  /\ filter_in_order(df, sels, <<a, b>>) = filter_in_order(df, sels, <<b, a>>)
                /\ filter_in_order(df, sels, <<a, b>>).rows = SelectedRows(df, only)

\* two facets restrict, each dropping a row the other keeps
C7_Witness ==
    /\ pc = "filtered"
    /\ year_sel # {} /\ ch_sel # {}
    /\ Len(fdf.rows) < Len(apply_facet(df, "Année", year_sel).rows)
    /\ Len(fdf.rows) < Len(apply_facet(df, "channel", ch_sel).rows)

\* the rows whose cell under the label is not null
NonNull(t, name) == {r \in DOMAIN t.rows : notna(t.rows[r][Pos(t, name)])}

RECURSIVE SumOver(_, _, _)
SumOver(t, name, R) ==
    IF R = {} THEN 0
    ELSE LET r == CHOOSE r \in R : TRUE
         IN  t.rows[r][Pos(t, name)].n + SumOver(t, name, R \ {r})

\* C2: when the filtered table has no row, or a KPI's column holds only nulls,
\* the total of interactions is shown as "0" while the average views and the
\* average engagement rate are shown with the placeholder (the rate card
\* appends its " %" to it), never as a number.
C2_EmptySumZeroMeanUndefined ==
    pc = "done" =>
        /\ NonNull(fdf, "Engagement total") = {} => kpi[4] = <<"0">>
        /\ NonNull(fdf, "views") = {} => kpi[2] = <<EMDASH>>
        /\ NonNull(fdf, "Taux d'engagement (%)") = {} => kpi[3] = <<EMDASH, " ", "%">>
        /\ (NonNull(fdf, "Engagement total") = {} /\ NonNull(fdf, "views") = {})
                => kpi[4] # kpi[2]

\* the selections leave no row and the four cards are rendered
C2_Witness ==
    /\ pc = "done"
    /\ Len(df.rows) > 0
    /\ Len(fdf.rows) = 0
    /\ kpi[4] = <<"0">>

\* each card is computed over the non-null cells of its own column
OwnColumnKpis ==
    /\ kpi[1] = _fr_int(Num(Cardinality(NonNull(fdf, "category_id")), 1))
    /\ kpi[2] = IF NonNull(fdf, "views") = {} THEN <<EMDASH>>
                ELSE _fr_int(Num(SumOver(fdf, "views", NonNull(fdf, "views")),
                                 Cardinality(NonNull(fdf, "views"))))

\* the three-row scenario under the canonical layout, all cards rendered
Scenario == pc = "done" /\ uploaded.table = FileTable(1, ScenarioPicks)

NoFilter == \A i \in DOMAIN sels : sels[i] = {}

OnlyYear2024 ==
    /\ year_sel = {IntCell(2024)}
    /\ cat_sel = {} /\ ch_sel = {} /\ day_sel = {} /\ hour_sel = {}

\* C3 as stated: own-column KPIs; in the scenario count 2 and average views 150
\* with no filter, and count 1, average views 200, total interactions 15 with
\* year = [2024].
C3_AsStated ==
    pc = "done" =>
        /\ OwnColumnKpis
        /\ (Scenario /\ NoFilter) => (kpi[1] = <<"2">> /\ kpi[2] = <<"1", "5", "0">>)
        /\ (Scenario /\ OnlyYear2024) =>
                (kpi[1] = <<"1">> /\ kpi[2] = <<"2", "0", "0">> /\ kpi[4] = <<"1", "5">>)

\* C3, amended: own-column KPIs; in the scenario count 2 and average views 150
\* with no filter, and with year = [2024] (rows 1 and 2 remain) count 1,
\* average views 150, total interactions 20.
C3_OwnColumnKpis ==
    pc = "done" =>
        /\ OwnColumnKpis
        /\ (Scenario /\ NoFilter) => (kpi[1] = <<"2">> /\ kpi[2] = <<"1", "5", "0">>)
        /\ (Scenario /\ OnlyYear2024) =>
                (kpi[1] = <<"1">> /\ kpi[2] = <<"1", "5", "0">> /\ kpi[4] = <<"2", "0">>)

\* the scenario filtered to 2024: the views of a row without category_id count
C3_Witness ==
    /\ Scenario
    /\ OnlyYear2024
    /\ Len(fdf.rows) = Len(df.rows) - 1
    /\ Cardinality(NonNull(fdf, "category_id")) < Cardinality(NonNull(fdf, "views"))

---------------------------------------------------------------------------
(* Claims about load_data, checked under Spec *)

Derived == <<"Année", "Jour de la semaine", "Heure">>

\* the table load_data holds after step 3
Normalized == normalize_columns(uploaded.table)

\* the derived columns the Loader may add: published_at exists after
\* normalization and the label does not
Added ==
    {d \in DOMAIN Derived :
        HasColumn(Normalized, "published_at") /\ ~HasColumn(Normalized, Derived[d])}

\* input column i is a year, weekday or hour column under an accepted spelling
Supplied(i, d) ==
    LET name == uploaded.table.columns[i]
    IN  \/ d = 1 /\ name = "Année"
        \/ d = 2 /\ Lower(name) = "jour de la semaine"
        \/ d = 3 /\ Lower(name) = "heure"

\* C6: a derived column is added exactly when published_at exists after
\* normalization and the column is not present; a supplied year, weekday or
\* hour column keeps its cells and no derived column of its kind is added;
\* without published_at nothing is added.
C6_DerivedOnlyWhenMissing ==
    (pc = "loaded" /\ uploaded.present) =>
        /\ Len(df.columns) = Len(Normalized.columns) + Cardinality(Added)
        /\ \A i \in DOMAIN Normalized.columns : df.columns[i] = Normalized.columns[i]
        /\ \A d \in DOMAIN Derived :
            Cardinality(Positions(df, Derived[d]))
                = Cardinality(Positions(Normalized, Derived[d])) + (IF d \in Added THEN 1 ELSE 0)
        /\ \A i \in DOMAIN uploaded.table.columns, d \in DOMAIN Derived :
            Supplied(i, d) =>
                /\ d \notin Added
                /\ \A r \in DOMAIN df.rows : df.rows[r][i] = uploaded.table.rows[r][i]
        /\ ~HasColumn(Normalized, "published_at") => df.columns = Normalized.columns

\* a supplied hour that differs from the hour of the row's timestamp is kept,
\* next to a timestamp column
C6_Witness ==
    /\ pc = "loaded"
    /\ HasColumn(uploaded.table, "HEURE")
    /\ IsSeries(df, "published_at") /\ IsSeries(df, "Heure")
    /\ \E r \in DOMAIN df.rows :
        /\ notna(Series(df, "published_at")[r])
        /\ Series(df, "Heure")[r] = IntCell(7)
        /\ dt_hour(Series(df, "published_at")[r]) = IntCell(10)

NullTemporal(r) ==
    \A d \in DOMAIN Derived :
        HasColumn(df, Derived[d]) => ~notna(df.rows[r][Pos(df, Derived[d])])

\* C8 as stated: in every row of a loaded table whose published_at is null,
\* year, weekday name and hour are null.
C8_AsStated ==
    (pc = "loaded" /\ IsSeries(df, "published_at")) =>
        \A r \in DOMAIN df.rows :
            ~notna(Series(df, "published_at")[r]) => NullTemporal(r)

\* C8, amended: in every row of a loaded table whose published_at is null,
\* each of year, weekday name and hour that the Loader derived (the column
\* was not in the input) is null.
C8_DerivedNullWithoutTimestamp ==
    (pc = "loaded" /\ IsSeries(df, "published_at")) =>
        \A r \in DOMAIN df.rows :
            ~notna(Series(df, "published_at")[r]) =>
                \A d \in Added : ~notna(df.rows[r][Pos(df, Derived[d])])

\* a row with an unparseable timestamp in a table whose three temporal columns
\* were derived, another row of which has them
C8_Witness ==
    /\ pc = "loaded"
    /\ Added = DOMAIN Derived
    /\ IsSeries(df, "published_at")
    /\ \E r \in DOMAIN df.rows :
        /\ uploaded.table.rows[r][Pos(df, "published_at")] = StrCell("n/a")
        /\ ~notna(Series(df, "published_at")[r])
    /\ \E r \in DOMAIN df.rows : notna(Series(df, "Heure")[r])

\* the name ends with the extension when case is ignored
HasExtension(name, ext) ==
    /\ Len(name) >= Len(ext)
    /\ \A i \in DOMAIN ext : LowerChar(name[Len(name) - Len(ext) + i]) = ext[i]

Unsupported(name) ==
    /\ ~HasExtension(name, <<".", "c", "s", "v">>)
    /\ ~HasExtension(name, <<".", "p", "a", "r", "q", "u", "e", "t">>)

\* C9: once load_data has run, a file whose name ends with neither ".csv" nor
\* ".parquet" (case ignored) has ended the pass with the unsupported-format
\* error and no table; no file gives the empty table and no error.
C9_UnsupportedOrAbsentFile ==
    pc # "start" =>
        /\ (uploaded.present /\ Unsupported(uploaded.name)) =>
                /\ pc = "error" /\ err = UnsupportedFormat
                /\ df = EmptyTable /\ fdf = EmptyTable /\ kpi = <<>>
        /\ ~uploaded.present =>
                /\ pc \in {"loaded", "awaiting"} /\ err = "none"
                /\ df = EmptyTable

\* a file with rows, named a.csv.x, is refused
C9_Witness ==
    /\ pc = "error"
    /\ uploaded.name = <<"a", ".", "c", "s", "v", ".", "x">>
    /\ Len(uploaded.table.rows) > 0
    /\ err = UnsupportedFormat

=============================================================================
